---- MODULE Spec2Model ----
(***************************************************************************)
(* Chatbot Personality Designer (zfrqbl/json-chatbot).                     *)
(*                                                                         *)
(* A model of the Streamlit session (src/app.py), of the Ollama pipeline   *)
(* (src/utils/ollama.py), of the mock response selector                    *)
(* (src/utils/mock_responses.py) and of the preset store                   *)
(* (src/utils/presets.py).                                                 *)
(*                                                                         *)
(* Units.  Personality traits are floats of [0.0, 1.0] in the program and  *)
(* integers in hundredths here (0.7 is 70); the temperature is kept in     *)
(* ten-thousandths (0.3 is 3000).  Time is counted in ticks, TicksPerSecond*)
(* of them to the second.  A Python dict is a sequence of <<key, value>>   *)
(* pairs in insertion order, which is the order .items() iterates in.      *)
(***************************************************************************)
EXTENDS Integers, Sequences, FiniteSets, TLC

VARIABLES
    messages,            \* st.session_state.messages
    personality,         \* st.session_state.personality (a dict)
    api_available,       \* st.session_state.api_available
    current_preset,      \* st.session_state.current_preset
    last_api_call_time,  \* st.session_state.last_api_call_time
    now,                 \* the reading of time.time()
    store,               \* the presets file: "missing", "malformed" or a table
    store_writable,      \* whether the presets file can be written
    accepted_calls,      \* the clock readings of the calls _rate_limit let pass
    obs                  \* what the last operation did: its result, the request it posted

vars == <<messages, personality, api_available, current_preset,
          last_api_call_time, now, store, store_writable, accepted_calls, obs>>

----------------------------------------------------------------------------
(* Bounds of the model. *)

TicksPerSecond == 2
MaxTime == 8
MaxChoice == 2
PoolSize == 5
MaxMessages == 4
MaxHistory == 10

(* Program constants, scaled. *)

TraitMin == 0
TraitMax == 100
HighThreshold == 70
LowThreshold == 30
SarcasmMidThreshold == 40
MockThreshold == 60
MIN_TEMPERATURE == 30
MAX_TEMPERATURE == 100
MIN_TOKENS == 50
MAX_TOKENS == 200
CONTEXT_WINDOW_SIZE == 8
MIN_API_CALL_INTERVAL == 2 * TicksPerSecond

Scale == TraitMax - TraitMin

----------------------------------------------------------------------------
(* Python dicts as sequences of <<key, value>> pairs. *)

Keys(d) == {d[i][1] : i \in DOMAIN d}

Get(d, k) == d[CHOOSE i \in DOMAIN d : d[i][1] = k][2]

Put(d, k, v) ==
    IF k \in Keys(d)
    THEN [i \in DOMAIN d |-> IF d[i][1] = k THEN <<k, v>> ELSE d[i]]
    ELSE Append(d, <<k, v>>)

Dict(order, val) == [i \in DOMAIN order |-> <<order[i], val[order[i]]>>]

TraitOrder == <<"creativity", "professionalism", "friendliness", "sarcasm", "verbosity">>

DEFAULT_PERSONALITY ==
    Dict(TraitOrder, [creativity |-> 50, professionalism |-> 50, friendliness |-> 50,
                      sarcasm |-> 0, verbosity |-> 50])

----------------------------------------------------------------------------
(* Exceptions.  str(e) is kept as the sequence of the fragments the message *)
(* is formatted from; a fragment that comes from outside the program (the   *)
(* text of a library error) is one opaque string.                           *)

Raise(type, text) == [ok |-> FALSE, value |-> "None", type |-> type, text |-> text]

Return(value) == [ok |-> TRUE, value |-> value, type |-> "None", text |-> <<>>]

----------------------------------------------------------------------------
(* utils/ollama.py *)

OLLAMA_URL == "http://localhost:11434/api/chat"
OLLAMA_MODEL == "phi3:mini"
REQUEST_TIMEOUT == 30

\* _rate_limit with <= for <: a call exactly the interval after the last is rejected.
rate_limit_inclusive(last, current_time) ==
    LET time_since_last_call == current_time - last
    IN  IF time_since_last_call <= MIN_API_CALL_INTERVAL
        THEN [proceed |-> FALSE, last |-> last]
        ELSE [proceed |-> TRUE, last |-> current_time]

\* _rate_limit: the result and the session's last_api_call_time afterwards.
rate_limit(last, current_time) ==
    LET time_since_last_call == current_time - last
    IN  IF time_since_last_call < MIN_API_CALL_INTERVAL
        THEN [proceed |-> FALSE, last |-> last]
        ELSE [proceed |-> TRUE, last |-> current_time]

\* The range test without its upper bound.
InRange_no_upper(value) == TraitMin <= value

InRange(value) == TraitMin <= value /\ value <= TraitMax

\* _validate_personality: raises on the first item, in the dict's order, out of range.
validate_personality(p) ==
    LET bad == {i \in DOMAIN p : ~InRange(p[i][2])}
    IN  IF bad = {}
        THEN Return("None")
        ELSE LET i == CHOOSE j \in bad : \A k \in bad : j <= k
             IN  Raise("ValueError",
                       <<"Personality trait '", p[i][1],
                         "' must be between 0.0 and 1.0, got ", ToString(p[i][2])>>)

ProfessionalismClause(p) ==
    IF Get(p, "professionalism") > HighThreshold THEN <<"highly professional and formal">>
    ELSE IF Get(p, "professionalism") < LowThreshold THEN <<"casual and informal">>
    ELSE <<>>

FriendlinessClause(p) ==
    IF Get(p, "friendliness") > HighThreshold THEN <<"extremely friendly and warm">>
    ELSE IF Get(p, "friendliness") < LowThreshold THEN <<"somewhat reserved and direct">>
    ELSE <<>>

\* The mid sarcasm clause from 0.4 on (>= for >).
SarcasmClause_inclusive(p) ==
    IF Get(p, "sarcasm") > HighThreshold THEN <<"quite sarcastic and witty">>
    ELSE IF Get(p, "sarcasm") >= SarcasmMidThreshold THEN <<"slightly sarcastic">>
    ELSE <<>>

SarcasmClause(p) ==
    IF Get(p, "sarcasm") > HighThreshold THEN <<"quite sarcastic and witty">>
    ELSE IF Get(p, "sarcasm") > SarcasmMidThreshold THEN <<"slightly sarcastic">>
    ELSE <<>>

CreativityClause(p) ==
    IF Get(p, "creativity") > HighThreshold THEN <<"highly creative and imaginative">>
    ELSE IF Get(p, "creativity") < LowThreshold THEN <<"factual and straightforward">>
    ELSE <<>>

\* The list `traits` of create_system_prompt, default clause included.
PromptTraits(p) ==
    LET traits == ProfessionalismClause(p) \o FriendlinessClause(p)
                  \o SarcasmClause(p) \o CreativityClause(p)
    IN  IF traits = <<>> THEN <<"helpful and informative">> ELSE traits

RECURSIVE Join(_, _)
\* sep.join(parts)
Join(sep, parts) ==
    IF parts = <<>> THEN ""
    ELSE IF Len(parts) = 1 THEN parts[1]
    ELSE parts[1] \o sep \o Join(sep, Tail(parts))

\* The f-string create_system_prompt returns.
PromptTemplate(traits_text) ==
    "You are a chatbot with a personality that is " \o traits_text \o ". "
    \o "IMPORTANT INSTRUCTIONS: "
    \o "- Provide only your final response, DO NOT show your reasoning process "
    \o "- DO NOT use phrases like \"Let me think...\" or \"Here's my reasoning...\" "
    \o "- DO NOT include any text before or after your actual response "
    \o "- Respond directly and concisely as your personality would. "
    \o "Respond appropriately based on your configured personality traits."

create_system_prompt(p) ==
    LET v == validate_personality(p)
    IN  IF ~v.ok THEN v
        ELSE Return(PromptTemplate(Join(", ", PromptTraits(p))))

\* message_history[:n]: the oldest n entries for the most recent n.
LastN_oldest(history, n) ==
    IF Len(history) <= n THEN history ELSE SubSeq(history, 1, n)

\* message_history[-n:]
LastN(history, n) ==
    IF n = 0 \/ Len(history) <= n THEN history
    ELSE SubSeq(history, Len(history) - n + 1, Len(history))

\* The `messages` list get_llm_response builds (the personality is valid).
BuildMessages(prompt, message_history, system_prompt_content) ==
    LET recent == LastN(message_history, CONTEXT_WINDOW_SIZE)
        system == [role |-> "system", content |-> system_prompt_content]
        user   == [role |-> "user", content |-> prompt]
    IN  <<system>>
        \o [i \in DOMAIN recent |-> [role |-> recent[i].role, content |-> recent[i].content]]
        \o <<user>>

\* int(x) for x = num / den, den > 0: truncation toward zero.
IntOf(num, den) == IF num >= 0 THEN num \div den ELSE -((-num) \div den)

\* temperature, in ten-thousandths.
Temperature(p) ==
    MIN_TEMPERATURE * Scale + Get(p, "creativity") * (MAX_TEMPERATURE - MIN_TEMPERATURE)

\* max_tokens rounded to the nearest integer (round() for int()).
MaxTokens_rounded(p) ==
    IntOf(2 * (MIN_TOKENS * Scale + Get(p, "verbosity") * (MAX_TOKENS - MIN_TOKENS)) + Scale,
          2 * Scale)

MaxTokens(p) ==
    IntOf(MIN_TOKENS * Scale + Get(p, "verbosity") * (MAX_TOKENS - MIN_TOKENS), Scale)

Payload(messages_, p) ==
    [model |-> OLLAMA_MODEL,
     messages |-> messages_,
     options |-> [temperature |-> Temperature(p), num_predict |-> MaxTokens(p)],
     stream |-> FALSE]

NoRequest == [url |-> "none"]

Request(payload) == [url |-> OLLAMA_URL, json |-> payload, timeout |-> REQUEST_TIMEOUT]

\* The try block of get_llm_response on what the endpoint does with the request.
\* ep.t: "refused" (no connection), "timeout", "status" (a non-2xx status),
\* "ok" (a 2xx status with the parsed body ep.body).
HandleResponse(ep) ==
    CASE ep.t = "refused" ->
           Raise("Exception", <<"Failed to connect to Ollama. Is it running on ",
                                OLLAMA_URL, "?">>)
      [] ep.t \in {"timeout", "status"} ->
           Raise("Exception", <<"Ollama API request failed: ", ep.detail>>)
      [] ep.t = "ok" /\ ~ep.body.has_message ->
           Raise("Exception", <<"Invalid response format: 'message' field not found">>)
      [] ep.t = "ok" /\ ep.body.has_message /\ ~ep.body.has_content ->
           Raise("Exception", <<"Invalid response format from Ollama: ", "'content'">>)
      [] OTHER -> Return(ep.body.content)

\* get_llm_response: its outcome, the session's last_api_call_time afterwards
\* and the request posted to the endpoint, if any.
get_llm_response(prompt, message_history, p, last, current_time, ep) ==
    LET rl == rate_limit(last, current_time)
        v  == validate_personality(p)
        sp == create_system_prompt(p)
    IN  IF ~rl.proceed
        THEN [outcome |-> Raise("Exception", <<"rate_limit_exceeded">>),
              last |-> rl.last, request |-> NoRequest]
        ELSE IF ~v.ok
        THEN [outcome |-> v, last |-> rl.last, request |-> NoRequest]
        ELSE IF ~sp.ok
        THEN [outcome |-> sp, last |-> rl.last, request |-> NoRequest]
        ELSE [outcome |-> HandleResponse(ep),
              last |-> rl.last,
              request |-> Request(Payload(BuildMessages(prompt, message_history, sp.value), p))]

----------------------------------------------------------------------------
(* utils/mock_responses.py *)

\* The emoji that ends the first high_friendliness string is left out.
MOCK_RESPONSES ==
    [high_sarcasm |-> <<
        "Oh, wow, another message. I'm absolutely thrilled to be helping you.",
        "Fascinating. You've used yet another of your precious messages on this.",
        "Let me guess - you want a helpful response? How original.",
        "I'd love to help, but I'm too busy contemplating the meaning of your request.",
        "Sure, I'll answer that. Not like I have anything better to do.">>,
     high_friendliness |-> <<
        "I'd be absolutely delighted to help with that!",
        "What a wonderful question! Let me think about how best to assist you.",
        "I'm so glad you asked! Here's what I can tell you about that:",
        "You've come to the right place! I'm happy to help with your question.",
        "That's a great question! Let me share what I know about this topic.">>,
     high_professionalism |-> <<
        "I will address your inquiry with the utmost professionalism.",
        "Thank you for your question. Based on the available information, I can provide the following response:",
        "I have analyzed your query and prepared the following comprehensive response.",
        "After careful consideration of your question, I've formulated this response:",
        "I appreciate your question. Allow me to provide a detailed and professional answer.">>,
     high_creativity |-> <<
        "Imagine if answers were clouds - I'd give you the fluffiest one! But since they're not, here's my creative take:",
        "If this response were a painting, it would be a masterpiece of helpful information! Here's what I've created:",
        "Let's approach this from a completely new angle! What if we considered that...",
        "I'm going to answer this in a way nobody has ever answered before! Here's my innovative perspective:",
        "Prepare for a response that will take you on a journey of imagination and insight!">>,
     default |-> <<
        "I understand your question. Here's what I can tell you about that.",
        "Thanks for your message. Let me help with that.",
        "I've processed your question and here's my response.",
        "That's an interesting question. Here's what I think about it.",
        "Let me address that for you. Here's the information you requested.">>]

PoolNames == DOMAIN MOCK_RESPONSES

\* max(traits.items(), key=value)[0]: the first item, in the dict's order, of greatest value.
get_dominant_trait(p) ==
    LET IsTrait(kv) == kv[1] # "verbosity"
        traits == SelectSeq(p, IsTrait)
        i == CHOOSE j \in DOMAIN traits :
                /\ \A k \in DOMAIN traits : traits[k][2] <= traits[j][2]
                /\ \A k \in 1..(j - 1) : traits[k][2] < traits[j][2]
    IN  traits[i][1]

\* The pool get_mock_response draws from.
MockPool(p) ==
    LET dominant_trait == get_dominant_trait(p)
    IN  IF dominant_trait = "sarcasm" /\ Get(p, "sarcasm") > MockThreshold
        THEN "high_sarcasm"
        ELSE IF dominant_trait = "friendliness" /\ Get(p, "friendliness") > MockThreshold
        THEN "high_friendliness"
        ELSE IF dominant_trait = "professionalism" /\ Get(p, "professionalism") > MockThreshold
        THEN "high_professionalism"
        ELSE IF dominant_trait = "creativity" /\ Get(p, "creativity") > MockThreshold
        THEN "high_creativity"
        ELSE "default"

\* random.choice(seq) returns seq[i] for one of these i.
Choices(seq) == DOMAIN seq

\* get_mock_response drawing from the default pool whatever the personality.
get_mock_response_default(p, choice) == MOCK_RESPONSES["default"][choice]

\* get_mock_response, `choice` being the index random.choice draws.
get_mock_response(p, choice) == MOCK_RESPONSES[MockPool(p)][choice]

----------------------------------------------------------------------------
(* utils/presets.py.  The presets file is [kind |-> "missing"],              *)
(* [kind |-> "malformed"] (text json.load rejects) or                        *)
(* [kind |-> "json", doc |-> table], the text json.dump writes for `table`.  *)

Missing == [kind |-> "missing"]
Malformed == [kind |-> "malformed"]
JsonFile(table) == [kind |-> "json", doc |-> table]

get_default_presets ==
    <<
      <<"Professional",
        Dict(TraitOrder, [creativity |-> 30, professionalism |-> 90, friendliness |-> 60,
                          sarcasm |-> 0, verbosity |-> 70])>>,
      <<"Friendly",
        Dict(TraitOrder, [creativity |-> 50, professionalism |-> 40, friendliness |-> 90,
                          sarcasm |-> 10, verbosity |-> 80])>>,
      <<"Creative",
        Dict(TraitOrder, [creativity |-> 90, professionalism |-> 30, friendliness |-> 70,
                          sarcasm |-> 30, verbosity |-> 90])>>,
      <<"Sarcastic",
        Dict(TraitOrder, [creativity |-> 70, professionalism |-> 20, friendliness |-> 40,
                          sarcasm |-> 90, verbosity |-> 60])>>
    >>

\* save_presets: whether it returned (or raised) and the file afterwards.
save_presets(presets, file, writable) ==
    IF writable
    THEN [ok |-> TRUE, file |-> JsonFile(presets)]
    ELSE [ok |-> FALSE, file |-> file]

\* load_presets writing the defaults back after a parse failure too.
load_presets_rewriting(file, writable) ==
    IF file.kind \in {"missing", "malformed"}
    THEN [presets |-> get_default_presets,
          file |-> save_presets(get_default_presets, file, writable).file]
    ELSE [presets |-> file.doc, file |-> file]

\* load_presets: the table it returns and the file afterwards.
load_presets(file, writable) ==
    IF file.kind = "missing"
    THEN \* save_presets raising is caught by `except Exception`
         [presets |-> get_default_presets,
          file |-> save_presets(get_default_presets, file, writable).file]
    ELSE IF file.kind = "malformed"
    THEN [presets |-> get_default_presets, file |-> file]
    ELSE [presets |-> file.doc, file |-> file]

----------------------------------------------------------------------------
(* app.py *)

RATE_LIMIT_NOTICE ==
    "I'm processing messages too quickly! Please wait 2 seconds before sending another message."

\* The test of the except clause never matching: every failure opens the circuit.
HasRateLimitToken_never(exc) == FALSE

\* "rate_limit_exceeded" in str(e)
HasRateLimitToken(exc) == \E i \in DOMAIN exc.text : exc.text[i] = "rate_limit_exceeded"

\* apply_preset: the personality, the current preset and the presets file afterwards.
apply_preset(preset_name, p, current, file, writable) ==
    IF preset_name = "Custom"
    THEN [personality |-> p, current_preset |-> current, file |-> file]
    ELSE LET ld == load_presets(file, writable)
         IN  IF preset_name \in Keys(ld.presets)
             THEN [personality |-> Get(ld.presets, preset_name),
                   current_preset |-> preset_name, file |-> ld.file]
             ELSE [personality |-> p, current_preset |-> current, file |-> ld.file]

\* The options of the preset selectbox.
preset_names(presets) == [i \in DOMAIN presets |-> presets[i][1]] \o <<"Custom">>

NoMove == [trait |-> "none", value |-> 0]

\* render_personality_sidebar up to the buttons: `selected` is what the selectbox
\* returns, `move` the slider the user moved and the value it was moved to (a
\* slider that was not moved returns the value it was given).
sidebar(selected, move, p, current, file, writable) ==
    LET ld == load_presets(file, writable)
        ap == IF selected # current
              THEN apply_preset(selected, p, current, ld.file, writable)
              ELSE [personality |-> p, current_preset |-> current, file |-> ld.file]
        Slider(trait) == IF move.trait = trait THEN move.value ELSE Get(ap.personality, trait)
        p1 == Put(ap.personality, "creativity", Slider("creativity"))
        p2 == Put(p1, "professionalism", Slider("professionalism"))
        p3 == Put(p2, "friendliness", Slider("friendliness"))
        p4 == Put(p3, "sarcasm", Slider("sarcasm"))
        p5 == Put(p4, "verbosity", Slider("verbosity"))
    IN  [personality |-> p5, current_preset |-> ap.current_preset, file |-> ap.file,
         presets |-> ld.presets]

\* The try statement calling the pipeline whatever api_available says.
chat_call_unguarded(prompt, msgs1, p, available, last, current_time, ep) ==
    get_llm_response(prompt, msgs1, p, last, current_time, ep)

\* The body of the try statement of render_chat_interface.
chat_call(prompt, msgs1, p, available, last, current_time, ep) ==
    IF available
    THEN get_llm_response(prompt, msgs1, p, last, current_time, ep)
    ELSE [outcome |-> Raise("Exception", <<"API marked as unavailable">>),
          last |-> last, request |-> NoRequest]

\* Whether the except clause of render_chat_interface calls get_mock_response.
UsesMock(outcome) == ~outcome.ok /\ ~HasRateLimitToken(outcome)

\* The chat input handling with the final append left out when the rate limiter
\* rejected the call: the notice is shown but not kept.
chat_turn_notice_not_kept(prompt, msgs, p, available, last, current_time, ep, choice) ==
    LET msgs1 == Append(msgs, [role |-> "user", content |-> prompt])
        call == chat_call(prompt, msgs1, p, available, last, current_time, ep)
        response == IF call.outcome.ok THEN call.outcome.value
                    ELSE IF HasRateLimitToken(call.outcome) THEN RATE_LIMIT_NOTICE
                    ELSE get_mock_response(p, choice)
        available1 == IF UsesMock(call.outcome) THEN FALSE ELSE available
    IN  [messages |-> IF ~call.outcome.ok /\ HasRateLimitToken(call.outcome)
                      THEN msgs1
                      ELSE Append(msgs1, [role |-> "assistant", content |-> response]),
         api_available |-> available1,
         last |-> call.last,
         outcome |-> call.outcome,
         request |-> call.request,
         response |-> response]

\* The chat input handling of render_chat_interface for a submitted prompt: the
\* session fields afterwards, the outcome of the pipeline and the request posted.
chat_turn(prompt, msgs, p, available, last, current_time, ep, choice) ==
    LET msgs1 == Append(msgs, [role |-> "user", content |-> prompt])
        call == chat_call(prompt, msgs1, p, available, last, current_time, ep)
        response == IF call.outcome.ok THEN call.outcome.value
                    ELSE IF HasRateLimitToken(call.outcome) THEN RATE_LIMIT_NOTICE
                    ELSE get_mock_response(p, choice)
        available1 == IF UsesMock(call.outcome) THEN FALSE ELSE available
    IN  [messages |-> Append(msgs1, [role |-> "assistant", content |-> response]),
         api_available |-> available1,
         last |-> call.last,
         outcome |-> call.outcome,
         request |-> call.request,
         response |-> response]

----------------------------------------------------------------------------
(* What the user, the clock, the endpoint and the presets file can do. *)

Prompts == {"hello"}

Replies == {"hi"}

Endpoints ==
    {[t |-> "refused", detail |-> "", body |-> [has_message |-> FALSE, has_content |-> FALSE, content |-> ""]],
     [t |-> "timeout", detail |-> "Read timed out. (read timeout=30)",
      body |-> [has_message |-> FALSE, has_content |-> FALSE, content |-> ""]],
     [t |-> "status", detail |-> "500 Server Error: Internal Server Error for url",
      body |-> [has_message |-> FALSE, has_content |-> FALSE, content |-> ""]],
     [t |-> "ok", detail |-> "", body |-> [has_message |-> FALSE, has_content |-> FALSE, content |-> ""]],
     [t |-> "ok", detail |-> "", body |-> [has_message |-> TRUE, has_content |-> FALSE, content |-> ""]]}
    \cup {[t |-> "ok", detail |-> "",
           body |-> [has_message |-> TRUE, has_content |-> TRUE, content |-> r]] : r \in Replies}

Unreached ==
    [t |-> "none", detail |-> "", body |-> [has_message |-> FALSE, has_content |-> FALSE, content |-> ""]]

\* A presets file the user edited: keys in another order, and a trait of their own.
CustomPresets ==
    <<
      <<"Diplomat",
        Dict(<<"creativity", "friendliness", "professionalism", "sarcasm", "verbosity">>,
             [creativity |-> 40, professionalism |-> 80, friendliness |-> 80,
              sarcasm |-> 0, verbosity |-> 50])>>,
      <<"Comedian",
        Dict(TraitOrder \o <<"humor">>,
             [creativity |-> 50, professionalism |-> 50, friendliness |-> 50,
              sarcasm |-> 50, verbosity |-> 50, humor |-> 150])>>
    >>

SliderTraits == {"sarcasm"}

SliderValues == {100}

UserStores == {Missing, JsonFile(CustomPresets)}

Idle(op) ==
    [op |-> op, prompt |-> "", outcome |-> Return("None"), request |-> NoRequest, response |-> ""]

Init ==
    /\ messages = <<>>
    /\ personality = DEFAULT_PERSONALITY
    /\ api_available = TRUE
    /\ current_preset = "Custom"
    /\ last_api_call_time = 0
    /\ now = MIN_API_CALL_INTERVAL
    /\ store \in UserStores
    /\ store_writable = TRUE
    /\ accepted_calls = <<>>
    /\ obs = Idle("init")

\* The clock advances.
Tick(d) ==
    /\ now + d <= MaxTime
    /\ now' = now + d
    /\ obs' = Idle("tick")
    /\ UNCHANGED <<messages, personality, api_available, current_preset,
                   last_api_call_time, store, store_writable, accepted_calls>>

\* A rerun of main() because the user picked `name` in the preset selectbox.
SelectPreset(name) ==
    /\ name # current_preset
    /\ LET sb == sidebar(name, NoMove, personality, current_preset, store, store_writable)
       IN  /\ \E i \in DOMAIN preset_names(load_presets(store, store_writable).presets) :
                 preset_names(load_presets(store, store_writable).presets)[i] = name
           /\ personality' = sb.personality
           /\ current_preset' = sb.current_preset
           /\ store' = sb.file
    /\ obs' = Idle("select_preset")
    /\ UNCHANGED <<messages, api_available, last_api_call_time, now, store_writable,
                   accepted_calls>>

\* A rerun of main() because the user moved the slider of `trait` to `value`.
MoveSlider(trait, value) ==
    /\ Get(personality, trait) # value
    /\ LET sb == sidebar(current_preset, [trait |-> trait, value |-> value], personality,
                         current_preset, store, store_writable)
       IN  /\ personality' = sb.personality
           /\ current_preset' = sb.current_preset
           /\ store' = sb.file
    /\ obs' = Idle("move_slider")
    /\ UNCHANGED <<messages, api_available, last_api_call_time, now, store_writable,
                   accepted_calls>>

\* A rerun of main() because the user clicked "Reset Conversation".
ResetConversation ==
    /\ LET sb == sidebar(current_preset, NoMove, personality, current_preset, store,
                         store_writable)
       IN  /\ personality' = sb.personality
           /\ current_preset' = sb.current_preset
           /\ store' = sb.file
    /\ messages' = <<>>
    /\ api_available' = TRUE
    /\ obs' = Idle("reset_conversation")
    /\ UNCHANGED <<last_api_call_time, now, store_writable, accepted_calls>>

\* A rerun of main() because the user clicked "Goodbye": st.stop() ends the run
\* before render_chat_interface.
Goodbye ==
    /\ LET sb == sidebar(current_preset, NoMove, personality, current_preset, store,
                         store_writable)
       IN  /\ personality' = sb.personality
           /\ current_preset' = sb.current_preset
           /\ store' = sb.file
    /\ obs' = Idle("goodbye")
    /\ UNCHANGED <<messages, api_available, last_api_call_time, now, store_writable,
                   accepted_calls>>

\* Whether get_llm_response gets as far as posting a request.
Posts(p, available, last, current_time) ==
    /\ available
    /\ rate_limit(last, current_time).proceed
    /\ validate_personality(p).ok

\* A rerun of main() because the user submitted `prompt` in the chat input; `ep` is
\* what the endpoint does with the request (Unreached when none is posted),
\* `choice` what random.choice draws (0 when it is not called).
SubmitPrompt(prompt, ep, choice) ==
    /\ Len(messages) + 2 <= MaxMessages
    /\ LET sb == sidebar(current_preset, NoMove, personality, current_preset, store,
                         store_writable)
           ct == chat_turn(prompt, messages, sb.personality, api_available,
                           last_api_call_time, now, ep, choice)
       IN  /\ (ep = Unreached) <=>
                 ~Posts(sb.personality, api_available, last_api_call_time, now)
           /\ IF UsesMock(chat_call(prompt, messages, sb.personality, api_available,
                                    last_api_call_time, now, ep).outcome)
              THEN choice \in Choices(MOCK_RESPONSES[MockPool(sb.personality)])
              ELSE choice = 0
           /\ personality' = sb.personality
           /\ current_preset' = sb.current_preset
           /\ store' = sb.file
           /\ messages' = ct.messages
           /\ api_available' = ct.api_available
           /\ last_api_call_time' = ct.last
           /\ accepted_calls' = IF rate_limit(last_api_call_time, now).proceed /\ api_available
                                THEN Append(accepted_calls, now) ELSE accepted_calls
           /\ obs' = [op |-> "submit_prompt", prompt |-> prompt, outcome |-> ct.outcome,
                      request |-> ct.request, response |-> ct.response]
    /\ UNCHANGED <<now, store_writable>>

Next ==
    \/ Tick(1)
    \/ \E name \in {"Professional", "Friendly", "Creative", "Sarcastic", "Diplomat",
                    "Comedian", "Custom"} : SelectPreset(name)
    \/ \E trait \in SliderTraits, value \in SliderValues : MoveSlider(trait, value)
    \/ ResetConversation
    \/ Goodbye
    \/ \E prompt \in Prompts, ep \in Endpoints \cup {Unreached}, choice \in 0..MaxChoice :
          SubmitPrompt(prompt, ep, choice)

Spec == Init /\ [][Next]_vars

----------------------------------------------------------------------------
(* The functions called once each, on inputs of bounded sets: after one call *)
(* obs holds what the call returned and the variables hold its arguments and *)
(* the state it left.                                                        *)

TraitGrid == {-1, 0, 30, 40, 60, 70, 100, 101}

VerbosityGrid == {-1, 0, 45, 100, 101}

Configs ==
    {Dict(TraitOrder, v) :
        v \in [creativity : TraitGrid, professionalism : TraitGrid, friendliness : TraitGrid,
               sarcasm : TraitGrid, verbosity : VerbosityGrid]}

MockGrid == {10, 50, 60, 70, 90}

KeyOrders ==
    {TraitOrder,
     <<"creativity", "friendliness", "professionalism", "sarcasm", "verbosity">>,
     <<"verbosity", "sarcasm", "friendliness", "professionalism", "creativity">>}

MockConfigs ==
    {Dict(order, v) :
        order \in KeyOrders,
        v \in [creativity : MockGrid, professionalism : MockGrid, friendliness : MockGrid,
               sarcasm : MockGrid, verbosity : {0, 100}]}

HistoryMessages == {[role |-> "user", content |-> "hello"], [role |-> "assistant", content |-> "hi"]}

Histories == UNION {[1..n -> HistoryMessages] : n \in 0..MaxHistory}

AllStores == {Missing, Malformed, JsonFile(get_default_presets), JsonFile(CustomPresets)}

InitCalls ==
    /\ messages = <<>>
    /\ personality = DEFAULT_PERSONALITY
    /\ api_available = TRUE
    /\ current_preset = "Custom"
    /\ last_api_call_time = 0
    /\ now = MIN_API_CALL_INTERVAL
    /\ store = Missing
    /\ store_writable = TRUE
    /\ accepted_calls = <<>>
    /\ obs = Idle("init")

\* _validate_personality(cfg)
CallValidatePersonality(cfg) ==
    /\ personality' = cfg
    /\ obs' = [op |-> "validate_personality", prompt |-> "",
               outcome |-> validate_personality(cfg), request |-> NoRequest, response |-> ""]
    /\ UNCHANGED <<messages, api_available, current_preset, last_api_call_time, now,
                   store, store_writable, accepted_calls>>

\* create_system_prompt(cfg)
CallCreateSystemPrompt(cfg) ==
    /\ personality' = cfg
    /\ obs' = [op |-> "create_system_prompt", prompt |-> "",
               outcome |-> create_system_prompt(cfg), request |-> NoRequest, response |-> ""]
    /\ UNCHANGED <<messages, api_available, current_preset, last_api_call_time, now,
                   store, store_writable, accepted_calls>>

\* get_mock_response(cfg), random.choice drawing `choice`
CallGetMockResponse(cfg, choice) ==
    /\ choice \in Choices(MOCK_RESPONSES[MockPool(cfg)])
    /\ personality' = cfg
    /\ obs' = [op |-> "get_mock_response", prompt |-> "",
               outcome |-> Return(get_mock_response(cfg, choice)),
               request |-> NoRequest, response |-> ""]
    /\ UNCHANGED <<messages, api_available, current_preset, last_api_call_time, now,
                   store, store_writable, accepted_calls>>

\* get_llm_response(prompt, history, cfg) at clock reading t, the endpoint doing ep
CallGetLlmResponse(prompt, history, cfg, t, ep) ==
    /\ LET r == get_llm_response(prompt, history, cfg, last_api_call_time, t, ep)
       IN  /\ (ep = Unreached) <=> (r.request = NoRequest)
           /\ messages' = history
           /\ personality' = cfg
           /\ now' = t
           /\ last_api_call_time' = r.last
           /\ accepted_calls' = IF rate_limit(last_api_call_time, t).proceed
                                THEN Append(accepted_calls, t) ELSE accepted_calls
           /\ obs' = [op |-> "get_llm_response", prompt |-> prompt, outcome |-> r.outcome,
                      request |-> r.request, response |-> ""]
    /\ UNCHANGED <<api_available, current_preset, store, store_writable>>

\* load_presets() on the presets file `file`
CallLoadPresets(file, writable) ==
    /\ LET ld == load_presets(file, writable)
       IN  /\ store' = ld.file
           /\ store_writable' = writable
           /\ obs' = [op |-> "load_presets", prompt |-> "", outcome |-> Return(ld.presets),
                      request |-> NoRequest, response |-> "", file |-> file]
    /\ UNCHANGED <<messages, personality, api_available, current_preset,
                   last_api_call_time, now, accepted_calls>>

\* No call was made yet.
Ready == obs.op = "init"

NextCalls ==
    \/ Ready /\ \E cfg \in Configs : CallValidatePersonality(cfg)
    \/ Ready /\ \E cfg \in Configs : CallCreateSystemPrompt(cfg)
    \/ Ready /\ \E cfg \in MockConfigs, choice \in 1..PoolSize : CallGetMockResponse(cfg, choice)
    \/ Ready /\ \E cfg \in Configs, t \in {1, MIN_API_CALL_INTERVAL},
                   ep \in {Unreached, CHOOSE e \in Endpoints : e.body.has_content} :
                   CallGetLlmResponse("hello", <<>>, cfg, t, ep)
    \/ Ready /\ \E prompt \in Prompts, history \in Histories, ep \in Endpoints :
                   CallGetLlmResponse(prompt, history, DEFAULT_PERSONALITY,
                                      MIN_API_CALL_INTERVAL, ep)
    \/ Ready /\ \E file \in AllStores, writable \in BOOLEAN : CallLoadPresets(file, writable)

SpecCalls == InitCalls /\ [][NextCalls]_vars

----------------------------------------------------------------------------
(* The claims. *)

\* The failure kind of an outcome of the pipeline, or "Success".
Kind(outcome) ==
    IF outcome.ok THEN "Success"
    ELSE IF outcome.text = <<"rate_limit_exceeded">> THEN "RateLimited"
    ELSE IF outcome.text = <<"API marked as unavailable">> THEN "Unavailable"
    ELSE IF outcome.type = "ValueError" THEN "InvalidConfig"
    ELSE IF outcome.text[1] \in {"Failed to connect to Ollama. Is it running on ",
                                 "Ollama API request failed: "} THEN "ConnectionError"
    ELSE "MalformedResponse"

\* The state is the one a chat turn left.
AfterChatTurn == obs.op = "submit_prompt"

\* C1: once api_available is false, a chat turn posts no request to the endpoint
\* and leaves the flag false; only reset_conversation sets the flag back to true.
C1_CircuitStaysOpen ==
    [][~api_available =>
         /\ (obs'.op = "submit_prompt" =>
               /\ obs'.request = NoRequest
               /\ Kind(obs'.outcome) = "Unavailable"
               /\ ~api_available')
         /\ (api_available' => obs'.op = "reset_conversation")]_vars

\* C1 witness: a second chat turn of the conversation, taken with the flag false.
C1_Witness ==
    /\ AfterChatTurn
    /\ Kind(obs.outcome) = "Unavailable"
    /\ Len(messages) = 4
    /\ ~api_available

\* C2: a chat turn started with api_available true leaves it false exactly when
\* the pipeline failed with a kind other than RateLimited.
C2_FlagFlipsOnFailure ==
    [][(api_available /\ obs'.op = "submit_prompt") =>
         /\ ~api_available' <=>
               Kind(obs'.outcome) \in {"ConnectionError", "MalformedResponse", "InvalidConfig"}
         /\ api_available' <=> Kind(obs'.outcome) \in {"Success", "RateLimited"}]_vars

\* C2 witness: a rate-limited turn that left the flag true, after an accepted call.
C2_Witness ==
    /\ AfterChatTurn
    /\ Kind(obs.outcome) = "RateLimited"
    /\ api_available
    /\ Len(accepted_calls) = 1

\* The strings of the mock response pools.
MockStrings(pool) == {MOCK_RESPONSES[pool][i] : i \in DOMAIN MOCK_RESPONSES[pool]}

AllMockStrings == UNION {MockStrings(pool) : pool \in PoolNames}

LastMessage == messages[Len(messages)]

\* C3 as claimed: on every failure kind the reply appended for the turn is a
\* string of the mock response pools.
C3_MockOnEveryFailure ==
    (AfterChatTurn /\ ~obs.outcome.ok) =>
        /\ LastMessage.role = "assistant"
        /\ LastMessage.content \in AllMockStrings

\* C3 as amended: on every failure kind but RateLimited the reply shown and
\* appended is a string of the pool get_mock_response selects for the personality;
\* on RateLimited it is the fixed rate-limit notice, which is no mock response;
\* whatever the outcome, the turn ends with an assistant message appended.
C3_MockOnFailureButRateLimit ==
    AfterChatTurn =>
        /\ LastMessage = [role |-> "assistant", content |-> obs.response]
        /\ Kind(obs.outcome) \in {"Unavailable", "ConnectionError", "MalformedResponse",
                                  "InvalidConfig"}
              => obs.response \in MockStrings(MockPool(personality))
        /\ Kind(obs.outcome) = "RateLimited"
              => obs.response = RATE_LIMIT_NOTICE /\ obs.response \notin AllMockStrings
        /\ Kind(obs.outcome) = "Success" => obs.response = obs.outcome.value

\* C3 witness: a connection failure answered from the high_sarcasm pool.
C3_Witness ==
    /\ AfterChatTurn
    /\ Kind(obs.outcome) = "ConnectionError"
    /\ LastMessage.content \in MockStrings("high_sarcasm")

\* Any two accepted calls are at least the minimum interval apart.
AcceptedCallsApart ==
    \A i, j \in DOMAIN accepted_calls :
        i < j => accepted_calls[j] - accepted_calls[i] >= MIN_API_CALL_INTERVAL

\* C4: the rate limiter accepts a call exactly when now minus the last accepted
\* call's time is at least the minimum interval, the first call always; an accepted
\* call sets the time to now, a rejected one leaves it; accepted calls are at least
\* the interval apart.
C4_RateLimiter ==
    /\ []AcceptedCallsApart
    /\ [][(api_available /\ obs'.op = "submit_prompt") =>
            /\ (Kind(obs'.outcome) # "RateLimited") <=>
                  (now - last_api_call_time >= 2 * TicksPerSecond)
            /\ accepted_calls = <<>> => Kind(obs'.outcome) # "RateLimited"
            /\ IF Kind(obs'.outcome) # "RateLimited"
               THEN last_api_call_time' = now /\ accepted_calls' = Append(accepted_calls, now)
               ELSE UNCHANGED <<last_api_call_time, accepted_calls>>]_vars

\* C4 witness: a second accepted call, exactly the interval after the first.
C4_Witness ==
    /\ AfterChatTurn
    /\ Len(accepted_calls) = 2
    /\ accepted_calls[2] - accepted_calls[1] = MIN_API_CALL_INTERVAL
    /\ last_api_call_time = now

\* C5: the outbound message list is the system message (the synthesized prompt),
\* the last min(len(history), 8) history entries in their order, role and content
\* passed through, then the user message of the prompt; its length is
\* min(len(history), 8) + 2.  `messages` is the history that was passed in.
C5_OutboundMessages ==
    (obs.op = "get_llm_response" /\ obs.request # NoRequest) =>
        LET out == obs.request.json.messages
            n == IF Len(messages) < 8 THEN Len(messages) ELSE 8
        IN  /\ Len(out) = n + 2
            /\ out[1] = [role |-> "system", content |-> create_system_prompt(personality).value]
            /\ \A i \in 1..n : out[1 + i] = messages[Len(messages) - n + i]
            /\ out[n + 2] = [role |-> "user", content |-> obs.prompt]

\* C5 witness: a request built from a history of more than 8 entries.
C5_Witness ==
    /\ obs.op = "get_llm_response"
    /\ obs.request # NoRequest
    /\ Len(messages) = 10
    /\ messages[1] # messages[3]
    /\ Len(obs.request.json.messages) = 10

AllInRange(p) == \A i \in DOMAIN p : 0 <= p[i][2] /\ p[i][2] <= 100

\* The clause of an axis with a high and a low clause, by the claim's thresholds.
AxisClause(value, high, low) ==
    IF value > 70 THEN <<high>> ELSE IF value < 30 THEN <<low>> ELSE <<>>

\* The clause list of the claim, in the order professionalism, friendliness,
\* sarcasm, creativity, the default clause standing in for an empty list.
ClaimedClauses(p) ==
    LET axes ==
            AxisClause(Get(p, "professionalism"),
                       "highly professional and formal", "casual and informal")
            \o AxisClause(Get(p, "friendliness"),
                          "extremely friendly and warm", "somewhat reserved and direct")
            \o (IF Get(p, "sarcasm") > 70 THEN <<"quite sarcastic and witty">>
                ELSE IF Get(p, "sarcasm") > 40 THEN <<"slightly sarcastic">>
                ELSE <<>>)
            \o AxisClause(Get(p, "creativity"),
                          "highly creative and imaginative", "factual and straightforward")
    IN  IF axes = <<>> THEN <<"helpful and informative">> ELSE axes

\* C6: for every valid config create_system_prompt returns the template filled
\* with the clause list the per-axis thresholds give, the default clause present
\* exactly when no axis gave a clause, and the same text for every verbosity.
C6_PromptClauses ==
    (obs.op = "create_system_prompt" /\ AllInRange(personality)) =>
        /\ obs.outcome.ok
        /\ obs.outcome.value = PromptTemplate(Join(", ", ClaimedClauses(personality)))
        /\ \A v \in {0, 45, 100} :
              create_system_prompt(Put(personality, "verbosity", v)) = obs.outcome

\* C6 witness: every axis on a threshold (0.3, 0.7, 0.4, 0.7), so the default clause.
C6_Witness ==
    /\ obs.op = "create_system_prompt"
    /\ Get(personality, "professionalism") = 30
    /\ Get(personality, "friendliness") = 70
    /\ Get(personality, "sarcasm") = 40
    /\ Get(personality, "creativity") = 70
    /\ Get(personality, "verbosity") = 100
    /\ obs.outcome.value = PromptTemplate("helpful and informative")

CanonicalAxes == <<"creativity", "professionalism", "friendliness", "sarcasm">>

\* The first axis, in the canonical order, that attains the maximum over the four.
ClaimedDominant(p) ==
    CanonicalAxes[CHOOSE i \in DOMAIN CanonicalAxes :
        /\ \A j \in DOMAIN CanonicalAxes : Get(p, CanonicalAxes[j]) <= Get(p, CanonicalAxes[i])
        /\ \A j \in 1..(i - 1) : Get(p, CanonicalAxes[j]) < Get(p, CanonicalAxes[i])]

ClaimedPool(p) ==
    IF Get(p, ClaimedDominant(p)) > 60 THEN "high_" \o ClaimedDominant(p) ELSE "default"

\* C7: get_mock_response returns a string of pool high_X exactly when X is the
\* first axis, in the order creativity, professionalism, friendliness, sarcasm,
\* that attains the maximum over those four axes, and that value is > 0.6;
\* otherwise a string of the default pool.
C7_MockPoolByCanonicalOrder ==
    /\ obs.op = "get_mock_response" =>
          obs.outcome.value \in MockStrings(ClaimedPool(personality))
    /\ (AfterChatTurn /\ UsesMock(obs.outcome)) =>
          obs.response \in MockStrings(ClaimedPool(personality))

FourBuiltIns == <<"Professional", "Friendly", "Creative", "Sarcastic", "Custom">>

\* C8 as claimed: when the presets file is missing or malformed, load_presets
\* returns the four built-in presets and the file holds the built-in table afterwards.
C8_FallbackAlwaysPersisted ==
    (obs.op = "load_presets" /\ obs.file.kind \in {"missing", "malformed"} /\ store_writable) =>
        /\ obs.outcome.value = get_default_presets
        /\ store = JsonFile(get_default_presets)

\* C8 as amended: load_presets returns the four built-in presets when the file is
\* missing or malformed; it writes them back only when the file is missing (and
\* can be written); a malformed file is left as it is, as is a file that parses.
C8_FallbackPersistedWhenMissing ==
    obs.op = "load_presets" =>
        /\ obs.outcome.ok
        /\ obs.file.kind \in {"missing", "malformed"} =>
              /\ obs.outcome.value = get_default_presets
              /\ preset_names(obs.outcome.value) = FourBuiltIns
        /\ obs.file.kind = "json" => obs.outcome.value = obs.file.doc
        /\ IF obs.file.kind = "missing" /\ store_writable
           THEN store = JsonFile(get_default_presets)
           ELSE store = obs.file

\* C8 witness: a malformed file, answered with the built-ins and still malformed.
C8_Witness ==
    /\ obs.op = "load_presets"
    /\ obs.file = Malformed
    /\ store_writable
    /\ obs.outcome.value = get_default_presets
    /\ store = Malformed

\* C9: _validate_personality accepts exactly the configs whose every field is in
\* [0.0, 1.0], and get_llm_response on a config with a field out of range fails
\* with no request built or posted.
C9_InvalidConfigNeverPosted ==
    /\ obs.op = "validate_personality" => (obs.outcome.ok <=> AllInRange(personality))
    /\ (obs.op = "get_llm_response" /\ ~AllInRange(personality)) =>
          /\ ~obs.outcome.ok
          /\ obs.request = NoRequest
    /\ (AfterChatTurn /\ ~AllInRange(personality)) =>
          /\ ~obs.outcome.ok
          /\ obs.request = NoRequest

\* C9 witness: a config with verbosity 1.01 alone out of range, refused by the
\* validation after the rate limiter let the call pass.
C9_Witness ==
    /\ obs.op = "get_llm_response"
    /\ Kind(obs.outcome) = "InvalidConfig"
    /\ Get(personality, "verbosity") = 101
    /\ AllInRange(Put(personality, "verbosity", 100))
    /\ accepted_calls # <<>>
    /\ obs.request = NoRequest

\* C10: in a posted request temperature = 0.3 + 0.7 * creativity within [0.3, 1.0]
\* and num_predict = floor(50 + 150 * verbosity) within [50, 200]; both are
\* non-decreasing in their input; the end values are 0.3, 1.0, 50 and 200.
C10_DerivedParameters ==
    (obs.op = "get_llm_response" /\ obs.request # NoRequest) =>
        LET c == Get(personality, "creativity")
            v == Get(personality, "verbosity")
            temperature == obs.request.json.options.temperature
            num_predict == obs.request.json.options.num_predict
        IN  /\ temperature = 3000 + 70 * c
            /\ 3000 <= temperature /\ temperature <= 10000
            /\ num_predict = (5000 + 150 * v) \div 100
            /\ 50 <= num_predict /\ num_predict <= 200
            /\ c = 0 => temperature = 3000
            /\ c = 100 => temperature = 10000
            /\ v = 0 => num_predict = 50
            /\ v = 100 => num_predict = 200
            /\ \A x \in 0..100 :
                  /\ x >= c => Temperature(Put(personality, "creativity", x)) >= temperature
                  /\ x >= v => MaxTokens(Put(personality, "verbosity", x)) >= num_predict

\* C10 witness: verbosity 0.45, where 50 + 150 * 0.45 = 117.5 is cut to 117.
C10_Witness ==
    /\ obs.op = "get_llm_response"
    /\ obs.request # NoRequest
    /\ Get(personality, "verbosity") = 45
    /\ Get(personality, "creativity") = 100
    /\ obs.request.json.options.num_predict = 117
    /\ obs.request.json.options.temperature = 10000

\* The entries of an outbound message list between the system message and the
\* final message.
HistoryPortion(out) == SubSeq(out, 2, Len(out) - 1)

\* C11: in every chat turn that reaches the endpoint the outbound message list
\* ends with the just-submitted user prompt and holds it once only: the entries
\* between the system message and that final entry are messages of earlier
\* turns, that is, a tail of the session history as it was before the turn.
C11_PromptOnceInOutbound ==
    [][(obs'.op = "submit_prompt" /\ obs'.request # NoRequest) =>
         LET out == obs'.request.json.messages
             hist == HistoryPortion(out)
         IN  /\ out[Len(out)] = [role |-> "user", content |-> obs'.prompt]
             /\ Len(hist) <= Len(messages)
             /\ hist = LastN(messages, Len(hist))]_vars

\* The roles of a history alternate user, assistant, starting with user, over an
\* even number of messages.
Alternates(msgs) ==
    /\ Len(msgs) % 2 = 0
    /\ \A i \in DOMAIN msgs : msgs[i].role = IF i % 2 = 1 THEN "user" ELSE "assistant"

\* What one step does to the session history: a chat turn appends the prompt as a
\* user message and then one assistant message holding the reply of the turn, a
\* reset empties the history, anything else leaves it alone.
HistoryStep ==
    /\ obs'.op = "submit_prompt" =>
          /\ messages' = messages \o <<[role |-> "user", content |-> obs'.prompt],
                                       [role |-> "assistant", content |-> obs'.response]>>
          /\ Kind(obs'.outcome) = "Success" => obs'.response = obs'.outcome.value
          /\ Kind(obs'.outcome) = "RateLimited" => obs'.response = RATE_LIMIT_NOTICE
          /\ Kind(obs'.outcome) \notin {"Success", "RateLimited"}
                => obs'.response \in AllMockStrings
    /\ obs'.op = "reset_conversation" => messages' = <<>>
    /\ obs'.op \notin {"submit_prompt", "reset_conversation"} => messages' = messages

\* C12: after any sequence of chat turns, preset applications, slider changes
\* and resets the session history alternates user, assistant from a user message
\* on and has even length; every submitted prompt appends exactly one user
\* message and then exactly one assistant message, whether the reply is a real
\* answer, the rate-limit notice or a mock reply; reset_conversation empties it.
C12_HistoryAlternates == []Alternates(messages) /\ [][HistoryStep]_vars

\* C12 witness: a conversation of two turns, the first answered by the endpoint
\* and the second by the rate-limit notice.
C12_Witness ==
    /\ AfterChatTurn
    /\ Len(messages) = 4
    /\ Alternates(messages)
    /\ messages[2].content \in Replies
    /\ messages[4].content = RATE_LIMIT_NOTICE

====
